---- MODULE Spec2Model ----
(***************************************************************************)
(* jupyblog/utm.py: attaching UTM tracking parameters to the URLs of a     *)
(* rendered document.                                                      *)
(*                                                                         *)
(* A Python str is modelled as a sequence of one-character strings, so     *)
(* that matching, splitting, quoting and replacing are computed character  *)
(* by character, the way the interpreter computes them.  The standard      *)
(* library calls the module makes (re.findall, urlparse, parse_qsl,        *)
(* urlencode, ParseResult.geturl, PurePosixPath.name, str.replace) are     *)
(* modelled after CPython 3.11, each at the line of utm.py that calls it.  *)
(***************************************************************************)
EXTENDS Integers, Sequences, FiniteSets, TLC

VARIABLES
    pc,         \* "input" before the call under study, "done" after it
    text,       \* the text argument (find_urls, add_utm_to_all_urls)
    triple,     \* the tracking triple <<source, medium, campaign>>
    urls,       \* the list find_urls returned
    url,        \* the url argument of add_utm_to_url
    annotated,  \* what add_utm_to_url returned (or that it raised)
    mapping,    \* the replacement maps built by add_utm_to_all_urls, one per call
    outs,       \* what the successive add_utm_to_all_urls calls returned
    path,       \* the argument of is_image
    img         \* what is_image returned

vars == <<pc, text, triple, urls, url, annotated, mapping, outs, path, img>>

----------------------------------------------------------------------------
(* Bounds of the input sets.                                               *)

\* find_urls: a text is at most this many pieces of FindPieces
MaxFindPieces == 4

\* add_utm_to_url: a URL has at most this many path segments and query fields
MaxSegments == 2
MaxFields == 2

\* is_image: a path has at most this many '/'-separated segments
MaxPathSegments == 3

\* add_utm_to_all_urls: a document has at most MaxDocUrls URLs, each of at most
\* MaxDocSegments path segments and MaxDocFields query fields, and the function
\* is applied at most MaxCalls times, each time to what it returned
MaxDocUrls == 2
MaxDocSegments == 1
MaxDocFields == 1
MaxCalls == 2

----------------------------------------------------------------------------
(* Strings.                                                                *)

EMPTY == <<>>

\* s.startswith(p, i-1): p occurs in s at (1-based) position i
StartsWithAt(s, p, i) ==
    /\ i >= 1
    /\ i + Len(p) - 1 <= Len(s)
    /\ \A k \in 1..Len(p) : s[i + k - 1] = p[k]

\* s.endswith(p)
EndsWith(s, p) ==
    /\ Len(p) <= Len(s)
    /\ \A k \in 1..Len(p) : s[Len(s) - Len(p) + k] = p[k]

\* the least element of a non-empty set of integers
Min(S) == CHOOSE k \in S : \A j \in S : k <= j

\* s.find(p, i-1) + 1: the first position >= i where p occurs (p non-empty), 0 if none
Find(s, p, i) ==
    LET hits == { k \in i..(Len(s) - Len(p) + 1) : StartsWithAt(s, p, k) }
    IN  IF hits = {} THEN 0 ELSE Min(hits)

\* the concatenation of a sequence of strings
RECURSIVE Concat(_)
Concat(ss) == IF ss = <<>> THEN <<>> ELSE Head(ss) \o Concat(Tail(ss))

\* sep.join(ss)
RECURSIVE Join(_, _)
Join(ss, sep) ==
    IF ss = <<>> THEN <<>>
    ELSE IF Len(ss) = 1 THEN Head(ss)
    ELSE Head(ss) \o sep \o Join(Tail(ss), sep)

\* s.split(sep) for a one-character separator
RECURSIVE Split(_, _)
Split(s, sep) ==
    LET i == Find(s, <<sep>>, 1)
    IN  IF i = 0 THEN <<s>>
        ELSE <<SubSeq(s, 1, i - 1)>> \o Split(SubSeq(s, i + 1, Len(s)), sep)

\* all sequences over S of length at most n
SeqsUpTo(S, n) == UNION {[1..k -> S] : k \in 0..n}

----------------------------------------------------------------------------
(* find_urls: re.findall(r"https?://[^\s\(\)]+", text)                     *)

\* the characters \s matches, among those of the model
Whitespace == {" ", "\n"}

\* (mutant) the class without the parentheses, [^\s]
IsUrlCharNoParens(c) == c \notin Whitespace

\* the character class [^\s\(\)]
IsUrlChar(c) == c \notin Whitespace /\ c \notin {"(", ")"}

HTTP == <<"h", "t", "t", "p">>
COLON_SLASH_SLASH == <<":", "/", "/">>

\* the length of the text that https?:// matches at position i, 0 if it does not
SchemeLenAt(t, i) ==
    IF ~StartsWithAt(t, HTTP, i) THEN 0
    ELSE IF StartsWithAt(t, <<"s">>, i + 4) /\ StartsWithAt(t, COLON_SLASH_SLASH, i + 5)
         THEN 8
    ELSE IF StartsWithAt(t, COLON_SLASH_SLASH, i + 4) THEN 7
    ELSE 0

\* the last position of the greedy run [^\s\(\)]* that starts at position i
\* (i - 1 when the run is empty)
RunEnd(t, i) ==
    LET stops == { k \in i..Len(t) : ~IsUrlChar(t[k]) }
    IN  IF stops = {} THEN Len(t) ELSE Min(stops) - 1

\* the last position of the match of the whole pattern at position i, 0 if none:
\* the scheme, then at least one character of the class ("+")
MatchEndAt(t, i) ==
    LET n == SchemeLenAt(t, i)
        e == RunEnd(t, i + n)
    IN  IF n = 0 \/ e < i + n THEN 0 ELSE e

\* re.findall scans left to right and resumes after the end of each match
RECURSIVE FindAllFrom(_, _)
FindAllFrom(t, i) ==
    LET starts == { k \in i..Len(t) : MatchEndAt(t, k) > 0 }
    IN  IF starts = {} THEN <<>>
        ELSE LET b == Min(starts)
                 e == MatchEndAt(t, b)
             IN  <<SubSeq(t, b, e)>> \o FindAllFrom(t, e + 1)

find_urls(t) == FindAllFrom(t, 1)

----------------------------------------------------------------------------
(* urlparse(url) and ParseResult.geturl(), for the characters of the model *)

Letters ==
    { "a", "b", "c", "d", "e", "f", "g", "h", "i", "j", "k", "l", "m",
      "n", "o", "p", "q", "r", "s", "t", "u", "v", "w", "x", "y", "z" }
UpperLetters == { "G", "N", "P" }
Digits == { "0", "1", "2", "3", "4", "5", "6", "7", "8", "9" }

\* str.lower(), on the characters of the model
Lower(s) ==
    [ k \in 1..Len(s) |->
        CASE s[k] = "G" -> "g" [] s[k] = "N" -> "n" [] s[k] = "P" -> "p"
          [] OTHER -> s[k] ]

\* urllib.parse.scheme_chars
SchemeChars == Letters \cup UpperLetters \cup Digits \cup {"+", "-", "."}

\* 'http' and 'https' are in uses_netloc and in uses_params
UsesNetloc(scheme) == scheme \in { <<"h", "t", "t", "p">>, <<"h", "t", "t", "p", "s">> }
UsesParams(scheme) == scheme \in { <<"h", "t", "t", "p">>, <<"h", "t", "t", "p", "s">> }

\* s.rfind(c) + 1: the last position of character c in s, 0 if none
LastIndexOf(s, c) ==
    IF \E k \in 1..Len(s) : s[k] = c
    THEN CHOOSE k \in 1..Len(s) : s[k] = c /\ \A j \in (k + 1)..Len(s) : s[j] # c
    ELSE 0

Contains(s, c) == \E k \in 1..Len(s) : s[k] = c

\* _splitnetloc(url, 2): the netloc ends before the first of '/', '?', '#'
NetlocEnd(u) ==
    LET stops == { k \in 3..Len(u) : u[k] \in {"/", "?", "#"} }
    IN  IF stops = {} THEN Len(u) ELSE Min(stops) - 1

\* s.split(c, 1) at position i of c (0: c does not occur): the part before, the
\* part after
BeforeAt(s, i) == IF i = 0 THEN s ELSE SubSeq(s, 1, i - 1)
AfterAt(s, i) == IF i = 0 THEN EMPTY ELSE SubSeq(s, i + 1, Len(s))

\* urlsplit, last step: if '?' in url: url, query = url.split('?', 1)
urlsplit_query(scheme, netloc, r, fragment) ==
    [ raised |-> \* ValueError("Invalid IPv6 URL")
                 Contains(netloc, "[") # Contains(netloc, "]"),
      scheme |-> scheme,
      netloc |-> netloc,
      path |-> BeforeAt(r, Find(r, <<"?">>, 1)),
      query |-> AfterAt(r, Find(r, <<"?">>, 1)),
      fragment |-> fragment ]

\* urlsplit: if '#' in url: url, fragment = url.split('#', 1)
urlsplit_fragment(scheme, netloc, r) ==
    urlsplit_query(scheme, netloc, BeforeAt(r, Find(r, <<"#">>, 1)),
                   AfterAt(r, Find(r, <<"#">>, 1)))

\* urlsplit: if url[:2] == '//': netloc, url = _splitnetloc(url, 2)
urlsplit_netloc(scheme, r) ==
    IF StartsWithAt(r, <<"/", "/">>, 1)
    THEN urlsplit_fragment(scheme, SubSeq(r, 3, NetlocEnd(r)),
                           SubSeq(r, NetlocEnd(r) + 1, Len(r)))
    ELSE urlsplit_fragment(scheme, EMPTY, r)

\* urlsplit: the scheme is what precedes the first ':' (at position i), when it
\* starts with a letter and holds scheme characters only
HasSchemeAt(u, i) ==
    /\ i > 1
    /\ u[1] \in Letters \cup UpperLetters
    /\ \A k \in 1..(i - 1) : u[k] \in SchemeChars

urlsplit_scheme(u, i) ==
    IF HasSchemeAt(u, i)
    THEN urlsplit_netloc(Lower(SubSeq(u, 1, i - 1)), SubSeq(u, i + 1, Len(u)))
    ELSE urlsplit_netloc(EMPTY, u)

\* urlsplit(url): raised, or scheme, netloc, path, query, fragment
urlsplit(u) == urlsplit_scheme(u, Find(u, <<":">>, 1))

\* _splitparams(url): the position of the ';' that starts the params, 0 if none
ParamsAt(p) ==
    IF Contains(p, "/") THEN Find(p, <<";">>, LastIndexOf(p, "/")) ELSE Find(p, <<";">>, 1)

\* urlparse, given urlsplit's result and the position i of the ';' of the params
\* in its path (0: none)
urlparse_params(sp, i) ==
    [ raised |-> sp.raised,
      scheme |-> sp.scheme,
      netloc |-> sp.netloc,
      path |-> BeforeAt(sp.path, i),
      params |-> AfterAt(sp.path, i),
      query |-> sp.query,
      fragment |-> sp.fragment ]

\* if scheme in uses_params and ';' in url: url, params = _splitparams(url)
urlparse_split(sp) ==
    urlparse_params(sp, IF UsesParams(sp.scheme) THEN ParamsAt(sp.path) ELSE 0)

\* urlparse(url): the parsed URL, or raised
urlparse(u) == urlparse_split(urlsplit(u))

\* urlunsplit, the path u with its params in place of the path
urlunsplit(p, u) ==
    (IF p.scheme # EMPTY THEN p.scheme \o <<":">> ELSE EMPTY)
      \o (IF \/ p.netloc # EMPTY
             \/ (p.scheme # EMPTY /\ UsesNetloc(p.scheme) /\ ~StartsWithAt(u, <<"/", "/">>, 1))
          THEN <<"/", "/">> \o p.netloc
                 \o (IF u # EMPTY /\ u[1] # "/" THEN <<"/">> ELSE EMPTY)
          ELSE EMPTY)
      \o u
      \o (IF p.query # EMPTY THEN <<"?">> \o p.query ELSE EMPTY)
      \o (IF p.fragment # EMPTY THEN <<"#">> \o p.fragment ELSE EMPTY)

\* ParseResult.geturl(): urlunparse (the params go back behind the path), then
\* urlunsplit
geturl(p) ==
    urlunsplit(p, IF p.params # EMPTY THEN p.path \o <<";">> \o p.params ELSE p.path)

----------------------------------------------------------------------------
(* parse_qsl(query) and urlencode(dict)                                    *)

\* the two hexadecimal digits of the characters of the model that quote() escapes
HexOf ==
    [ c \in { " ", "\n", "#", "%", "&", "(", ")", "+", "/", ":", ";", "=", "?", "[" } |->
        CASE c = " " -> <<"2", "0">>  [] c = "\n" -> <<"0", "A">>
          [] c = "#" -> <<"2", "3">>  [] c = "%" -> <<"2", "5">>
          [] c = "&" -> <<"2", "6">>  [] c = "(" -> <<"2", "8">>
          [] c = ")" -> <<"2", "9">>  [] c = "+" -> <<"2", "B">>
          [] c = "/" -> <<"2", "F">>  [] c = ":" -> <<"3", "A">>
          [] c = ";" -> <<"3", "B">>  [] c = "=" -> <<"3", "D">>
          [] c = "?" -> <<"3", "F">>  [] c = "[" -> <<"5", "B">> ]

\* the characters quote() never escapes
AlwaysSafe == Letters \cup UpperLetters \cup Digits \cup {"_", ".", "-", "~"}

\* quote_plus(s): ' ' becomes '+', every other character outside AlwaysSafe %XX
RECURSIVE quote_plus(_)
quote_plus(s) ==
    IF s = EMPTY THEN EMPTY
    ELSE (IF Head(s) \in AlwaysSafe THEN <<Head(s)>>
          ELSE IF Head(s) = " " THEN <<"+">>
          ELSE <<"%">> \o HexOf[Head(s)]) \o quote_plus(Tail(s))

\* unquote(s.replace('+', ' ')): %XX becomes its character (the escapes of
\* HexOf; any other '%' stays), '+' becomes ' '
RECURSIVE unquote_plus(_)
unquote_plus(s) ==
    IF s = EMPTY THEN EMPTY
    ELSE IF /\ Head(s) = "%"
            /\ Len(s) >= 3
            /\ \E c \in DOMAIN HexOf : HexOf[c] = <<s[2], s[3]>>
         THEN <<CHOOSE c \in DOMAIN HexOf : HexOf[c] = <<s[2], s[3]>>>>
                \o unquote_plus(SubSeq(s, 4, Len(s)))
    ELSE <<IF Head(s) = "+" THEN " " ELSE Head(s)>> \o unquote_plus(Tail(s))

\* parse_qsl(qs): the <<name, value>> pairs of qs; a field with no '=' or with
\* an empty value is dropped (keep_blank_values=False)
RECURSIVE PairsOf(_)
PairsOf(fields) ==
    IF fields = <<>> THEN <<>>
    ELSE LET nv == Head(fields)
             i == Find(nv, <<"=">>, 1)
         IN  (IF nv = EMPTY \/ i = 0 \/ i = Len(nv) THEN <<>>
              ELSE << <<unquote_plus(SubSeq(nv, 1, i - 1)),
                        unquote_plus(SubSeq(nv, i + 1, Len(nv)))>> >>)
             \o PairsOf(Tail(fields))

parse_qsl(qs) == IF qs = EMPTY THEN <<>> ELSE PairsOf(Split(qs, "&"))

\* d[k] = v on a dict kept as the sequence of its items in insertion order: a
\* key already present keeps its place and takes the new value
DictSet(d, k, v) ==
    IF \E i \in 1..Len(d) : d[i][1] = k
    THEN [ i \in 1..Len(d) |-> IF d[i][1] = k THEN <<k, v>> ELSE d[i] ]
    ELSE Append(d, <<k, v>>)

\* dict(d).update(items), items a sequence of pairs
RECURSIVE DictUpdate(_, _)
DictUpdate(d, items) ==
    IF items = <<>> THEN d
    ELSE DictUpdate(DictSet(d, Head(items)[1], Head(items)[2]), Tail(items))

\* urlencode(d)
RECURSIVE EncodeItems(_)
EncodeItems(d) ==
    IF d = <<>> THEN <<>>
    ELSE <<quote_plus(Head(d)[1]) \o <<"=">> \o quote_plus(Head(d)[2])>>
           \o EncodeItems(Tail(d))

urlencode(d) == Join(EncodeItems(d), <<"&">>)

----------------------------------------------------------------------------
(* add_utm_to_url                                                          *)

UTM_SOURCE == <<"u", "t", "m", "_", "s", "o", "u", "r", "c", "e">>
UTM_MEDIUM == <<"u", "t", "m", "_", "m", "e", "d", "i", "u", "m">>
UTM_CAMPAIGN == <<"u", "t", "m", "_", "c", "a", "m", "p", "a", "i", "g", "n">>

\* parsed._replace(query=urlencode({**current_params, **utm})).geturl()
MergeQuery(parsed, utm) ==
    LET current_params == DictUpdate(<<>>, parse_qsl(parsed.query))
    IN  geturl([parsed EXCEPT !.query = urlencode(DictUpdate(current_params, utm))])

\* (mutant) 'utm_campaign' given the medium
add_utm_to_parsed_medium_twice(parsed, source, medium, campaign) ==
    MergeQuery(parsed, << <<UTM_SOURCE, source>>, <<UTM_MEDIUM, medium>>,
                          <<UTM_CAMPAIGN, medium>> >>)

\* the body of add_utm_to_url once the url is parsed
add_utm_to_parsed(parsed, source, medium, campaign) ==
    MergeQuery(parsed, << <<UTM_SOURCE, source>>, <<UTM_MEDIUM, medium>>,
                          <<UTM_CAMPAIGN, campaign>> >>)

\* add_utm_to_url, given what urlparse(url) gave
add_utm_to_url_parsed(parsed, source, medium, campaign) ==
    IF parsed.raised THEN [raised |-> TRUE, value |-> EMPTY]
    ELSE [raised |-> FALSE,
          value |-> add_utm_to_parsed(parsed, source, medium, campaign)]

\* add_utm_to_url(url, source, medium, campaign) for a str url: what it returns,
\* or that urlparse raised
add_utm_to_url(u, source, medium, campaign) ==
    add_utm_to_url_parsed(urlparse(u), source, medium, campaign)

----------------------------------------------------------------------------
(* is_image                                                                *)

IMAGE_SUFFIXES ==
    { <<"p", "n", "g">>, <<"j", "p", "g">>, <<"j", "p", "e", "g">>,
      <<"s", "v", "g">>, <<"w", "e", "b", "p">>, <<"g", "i", "f">> }

\* the components PurePosixPath keeps: those between '/' that are neither empty
\* nor '.'
RECURSIVE PathParts(_)
PathParts(fields) ==
    IF fields = <<>> THEN <<>>
    ELSE (IF Head(fields) = EMPTY \/ Head(fields) = <<".">> THEN <<>>
          ELSE <<Head(fields)>>) \o PathParts(Tail(fields))

\* PurePosixPath(p).name: the last component kept, '' if there is none
PathName(p) ==
    LET parts == PathParts(Split(p, "/"))
    IN  IF parts = <<>> THEN EMPTY ELSE parts[Len(parts)]

is_image(image_url_path) ==
    \E suffix \in IMAGE_SUFFIXES : EndsWith(PathName(image_url_path), <<".">> \o suffix)

----------------------------------------------------------------------------
(* add_utm_to_all_urls                                                     *)

\* s.replace(old, new), old non-empty: every non-overlapping occurrence, from the left
RECURSIVE Replace(_, _, _)
Replace(s, old, new) ==
    LET i == Find(s, old, 1)
    IN  IF i = 0 THEN s
        ELSE SubSeq(s, 1, i - 1) \o new
               \o Replace(SubSeq(s, i + Len(old), Len(s)), old, new)

\* [urlparse(url) for url in find_urls(text)]
RECURSIVE ParseAll(_)
ParseAll(located) ==
    IF located = <<>> THEN <<>>
    ELSE <<urlparse(Head(located))>> \o ParseAll(Tail(located))

\* [url for url in urls if not is_image(url.path)]
RECURSIVE NotImages(_)
NotImages(parsed) ==
    IF parsed = <<>> THEN <<>>
    ELSE (IF is_image(Head(parsed).path) THEN <<>> ELSE <<Head(parsed)>>)
         \o NotImages(Tail(parsed))

\* {url.geturl(): add_utm_to_url(url, ...) for url in urls}, as the sequence of
\* its items in insertion order
RECURSIVE BuildMapping(_, _, _, _, _)
BuildMapping(d, parsed, source, medium, campaign) ==
    IF parsed = <<>> THEN d
    ELSE BuildMapping(
             DictSet(d, geturl(Head(parsed)),
                     add_utm_to_parsed(Head(parsed), source, medium, campaign)),
             Tail(parsed), source, medium, campaign)

\* for original, new in mapping.items(): text = text.replace(original, new)
RECURSIVE ReplaceAll(_, _)
ReplaceAll(t, items) ==
    IF items = <<>> THEN t
    ELSE ReplaceAll(Replace(t, Head(items)[1], Head(items)[2]), Tail(items))

\* add_utm_to_all_urls, from the mapping on: the replacements
add_utm_to_all_urls_replace(t, m) ==
    [raised |-> FALSE, value |-> ReplaceAll(t, m), mapping |-> m]

\* add_utm_to_all_urls, from the parsed URLs on
add_utm_to_all_urls_parsed(t, parsed, source, medium, campaign) ==
    IF \E i \in 1..Len(parsed) : parsed[i].raised
    THEN [raised |-> TRUE, value |-> EMPTY, mapping |-> <<>>]
    ELSE add_utm_to_all_urls_replace(
             t, BuildMapping(<<>>, NotImages(parsed), source, medium, campaign))

\* add_utm_to_all_urls(text, source, medium, campaign): what it returns and the
\* mapping it built, or that urlparse raised
add_utm_to_all_urls(t, source, medium, campaign) ==
    add_utm_to_all_urls_parsed(t, ParseAll(find_urls(t)), source, medium, campaign)

----------------------------------------------------------------------------
(* The input sets: URLs put together from their components.                *)

SLASH == <<"/">>

\* '/' seg '/' seg ..., for every sequence of at most n segments
PathsOf(segments, n) ==
    { Concat([ k \in 1..Len(ss) |-> SLASH \o ss[k] ]) : ss \in SeqsUpTo(segments, n) }

\* no query, or '?' and at most n fields joined by '&'
QueriesOf(fields, n) ==
    {EMPTY} \cup { <<"?">> \o Join(fs, <<"&">>) : fs \in SeqsUpTo(fields, n) }

\* scheme '://' authority, then a path, a query and a trailer
UrlsOf(origins, paths, queries, trailers) ==
    { og \o pa \o qu \o tr :
        og \in origins, pa \in paths, qu \in queries, tr \in trailers }

\* tracking triples: plain values, and values that urlencode has to quote
Triples ==
    { << <<"s">>, <<"m">>, <<"c">> >>,
      << <<"a", " ", "b">>, <<"&">>, <<"=", "/">> >> }

----------------------------------------------------------------------------
(* add_utm_to_url on one URL.                                              *)

\* 'http://', 'http://a', 'https://a', 'http://[a'
UrlOrigins ==
    { HTTP \o COLON_SLASH_SLASH,
      HTTP \o COLON_SLASH_SLASH \o <<"a">>,
      HTTP \o <<"s">> \o COLON_SLASH_SLASH \o <<"a">>,
      HTTP \o COLON_SLASH_SLASH \o <<"[", "a">> }
UrlSegments == { EMPTY, <<"b">>, <<"b", ".", "p", "n", "g">> }
\* 'x=1', 'y=' (an empty value), 'z&x=2' (a field with no '=', a repeated name),
\* 'utm_source=o' (a UTM key already there)
UrlFields ==
    { <<"x", "=", "1">>, <<"y", "=">>, <<"z", "&", "x", "=", "2">>,
      UTM_SOURCE \o <<"=", "o">> }
\* what follows the path (params) or the query (fragment)
UrlTrailers == { EMPTY, <<"#">>, <<"#", "f">>, <<";">>, <<";", "p">> }

UrlInputs ==
    UrlsOf(UrlOrigins, PathsOf(UrlSegments, MaxSegments),
           QueriesOf(UrlFields, MaxFields), UrlTrailers)

InitUrl ==
    /\ pc = "input"
    /\ url \in UrlInputs
    /\ triple \in Triples
    /\ text = EMPTY
    /\ urls = <<>>
    /\ annotated = [raised |-> FALSE, value |-> EMPTY]
    /\ mapping = <<>>
    /\ outs = <<>>
    /\ path = EMPTY
    /\ img = FALSE

\* a call of add_utm_to_url(url, source, medium, campaign) with a str url
AddUtmToUrlCall ==
    /\ pc = "input"
    /\ annotated' = add_utm_to_url(url, triple[1], triple[2], triple[3])
    /\ pc' = "done"
    /\ UNCHANGED <<text, triple, urls, url, mapping, outs, path, img>>

NextUrl == AddUtmToUrlCall

SpecUrl == InitUrl /\ [][NextUrl]_vars

----------------------------------------------------------------------------
(* Claims about add_utm_to_url (C3, C4, C6), under SpecUrl.                *)

Called == pc = "done" /\ ~annotated.raised

\* the '&'-separated fields of a query that have an '=', as <<name, value>>
\* pairs, unquoted; a field with an empty value is a parameter too
RECURSIVE C4_Fields(_)
C4_Fields(fields) ==
    IF fields = <<>> THEN <<>>
    ELSE LET nv == Head(fields)
             i == Find(nv, <<"=">>, 1)
         IN  (IF i = 0 THEN <<>>
              ELSE << <<unquote_plus(SubSeq(nv, 1, i - 1)),
                        unquote_plus(SubSeq(nv, i + 1, Len(nv)))>> >>)
             \o C4_Fields(Tail(fields))

C4_Params(query) == C4_Fields(Split(query, "&"))

UtmKeys == { UTM_SOURCE, UTM_MEDIUM, UTM_CAMPAIGN }

\* the three pairs of the tracking triple, each value query-encoded (a value of
\* letters, digits, '_', '.', '-', '~' is its own encoding)
C3_Pairs ==
    << UTM_SOURCE \o <<"=">> \o quote_plus(triple[1]),
       UTM_MEDIUM \o <<"=">> \o quote_plus(triple[2]),
       UTM_CAMPAIGN \o <<"=">> \o quote_plus(triple[3]) >>

C3_Orders ==
    { <<1, 2, 3>>, <<1, 3, 2>>, <<2, 1, 3>>, <<2, 3, 1>>, <<3, 1, 2>>, <<3, 2, 1>> }

\* C3 (as written): for every non-image URL u with no existing query parameters,
\* the annotated URL equals u followed by '?utm_source=S&utm_medium=M&utm_campaign=C',
\* the three pairs in any order.
C3_AppendsToUrl ==
    ( /\ Called
      /\ ~is_image(urlparse(url).path)
      /\ C4_Params(urlparse(url).query) = <<>> )
    => \E o \in C3_Orders :
          annotated.value =
              url \o <<"?">> \o C3_Pairs[o[1]] \o <<"&">> \o C3_Pairs[o[2]]
                  \o <<"&">> \o C3_Pairs[o[3]]

\* C3 (as amended): for every non-image URL u that urlparse accepts, that contains
\* neither '?' nor '#' and that its own parse serialises back to (geturl() = u),
\* and for every tracking triple (S, M, C), the annotated URL equals u followed by
\* '?utm_source=S&utm_medium=M&utm_campaign=C', in this order, each value
\* query-encoded.
C3_AppendsToPlainUrl ==
    ( /\ Called
      /\ ~is_image(urlparse(url).path)
      /\ ~Contains(url, "?") /\ ~Contains(url, "#")
      /\ geturl(urlparse(url)) = url )
    => annotated.value =
          url \o <<"?">> \o C3_Pairs[1] \o <<"&">> \o C3_Pairs[2] \o <<"&">> \o C3_Pairs[3]

\* C3 witness: a URL with a path and with params, no query and no fragment, and
\* a source that needs encoding, annotated by appending the three pairs.
C3_Witness ==
    /\ Called
    /\ ~is_image(urlparse(url).path)
    /\ ~Contains(url, "?") /\ ~Contains(url, "#")
    /\ geturl(urlparse(url)) = url
    /\ triple[1] # quote_plus(triple[1])
    /\ urlparse(url).netloc # EMPTY
    /\ urlparse(url).path = <<"/", "b">>
    /\ urlparse(url).params # EMPTY
    /\ annotated.value =
          url \o <<"?">> \o C3_Pairs[1] \o <<"&">> \o C3_Pairs[2] \o <<"&">> \o C3_Pairs[3]

\* C4: the query of the result holds every existing parameter whose name is not a
\* UTM key, with its value (the last occurrence of a repeated name), and each UTM
\* key exactly once, with the supplied tracking value.
C4_QueryIsMerge ==
    Called =>
        LET before == C4_Params(urlparse(url).query)
            after == C4_Params(urlparse(annotated.value).query)
            utm == << <<UTM_SOURCE, triple[1]>>, <<UTM_MEDIUM, triple[2]>>,
                      <<UTM_CAMPAIGN, triple[3]>> >>
        IN  /\ \A i \in 1..Len(before) :
                 ( /\ before[i][1] \notin UtmKeys
                   /\ \A j \in (i + 1)..Len(before) : before[j][1] # before[i][1] )
                 => \E j \in 1..Len(after) : after[j] = before[i]
            /\ \A k \in 1..3 :
                 /\ Cardinality({ j \in 1..Len(after) : after[j][1] = utm[k][1] }) = 1
                 /\ \E j \in 1..Len(after) : after[j] = utm[k]

\* C6: the result has the scheme, authority, path and fragment of the input.
C6_FramePreserved ==
    Called =>
        LET before == urlparse(url)
            after == urlparse(annotated.value)
        IN  /\ ~after.raised
            /\ after.scheme = before.scheme
            /\ after.netloc = before.netloc
            /\ after.path = before.path
            /\ after.fragment = before.fragment

----------------------------------------------------------------------------
(* is_image on one path.                                                   *)

PathSegments ==
    { EMPTY, <<".">>, <<".", ".">>, <<"a">>, <<"p", "n", "g">>,
      <<".", "p", "n", "g">>, <<"a", ".", "p", "n", "g">>,
      <<"a", ".", "P", "N", "G">>, <<"a", ".", "p", "n", "g", ".">>,
      <<"a", ".", "j", "p", "g">>, <<"a", ".", "j", "p", "e", "g">>,
      <<"a", ".", "s", "v", "g">>, <<"a", ".", "w", "e", "b", "p">>,
      <<"a", ".", "g", "i", "f">>, <<"a", ".", "j", "p", "e">> }

PathInputs == { Join(ss, SLASH) : ss \in SeqsUpTo(PathSegments, MaxPathSegments) }

InitPath ==
    /\ pc = "input"
    /\ path \in PathInputs
    /\ text = EMPTY
    /\ triple = <<EMPTY, EMPTY, EMPTY>>
    /\ urls = <<>>
    /\ url = EMPTY
    /\ annotated = [raised |-> FALSE, value |-> EMPTY]
    /\ mapping = <<>>
    /\ outs = <<>>
    /\ img = FALSE

\* a call of is_image(path)
IsImageCall ==
    /\ pc = "input"
    /\ img' = is_image(path)
    /\ pc' = "done"
    /\ UNCHANGED <<text, triple, urls, url, annotated, mapping, outs, path>>

NextPath == IsImageCall

SpecPath == InitPath /\ [][NextPath]_vars

\* the final segment of a path: what follows its last '/'
C9_FinalSegment(p) == SubSeq(p, LastIndexOf(p, "/") + 1, Len(p))

C9_Extensions ==
    { <<".", "p", "n", "g">>, <<".", "j", "p", "g">>, <<".", "j", "p", "e", "g">>,
      <<".", "s", "v", "g">>, <<".", "w", "e", "b", "p">>, <<".", "g", "i", "f">> }

\* C9: is_image returns true if and only if the final path segment ends with '.'
\* followed by one of png, jpg, jpeg, svg, webp, gif, compared case-sensitively.
C9_FinalSegmentDecides ==
    pc = "done" =>
        (img <=> \E x \in C9_Extensions : EndsWith(C9_FinalSegment(path), x))

----------------------------------------------------------------------------
(* add_utm_to_all_urls on a document, applied again to what it returned.   *)

\* 'http://a', 'https://a', 'http://[a'
DocOrigins ==
    { HTTP \o COLON_SLASH_SLASH \o <<"a">>,
      HTTP \o <<"s">> \o COLON_SLASH_SLASH \o <<"a">>,
      HTTP \o COLON_SLASH_SLASH \o <<"[", "a">> }
DocSegments == { <<"b">>, <<"b", ".", "p", "n", "g">> }
DocFields == { <<"x", "=", "1">> }
DocTrailers == { EMPTY, <<"#">>, <<"#", "f">> }

DocUrls ==
    UrlsOf(DocOrigins, PathsOf(DocSegments, MaxDocSegments),
           QueriesOf(DocFields, MaxDocFields), DocTrailers)

\* the URLs separated by a space, bare or each in the parentheses of a markdown
\* link
DocText(us, markdown) ==
    Join([ k \in 1..Len(us) |->
             IF markdown THEN <<"[", "t", "]", "(">> \o us[k] \o <<")">> ELSE us[k] ],
         <<" ">>)

InitDoc ==
    /\ pc = "input"
    /\ \E us \in SeqsUpTo(DocUrls, MaxDocUrls), markdown \in BOOLEAN :
          text = DocText(us, markdown)
    /\ triple \in Triples
    /\ urls = <<>>
    /\ url = EMPTY
    /\ annotated = [raised |-> FALSE, value |-> EMPTY]
    /\ mapping = <<>>
    /\ outs = <<>>
    /\ path = EMPTY
    /\ img = FALSE

\* the step of a call, given its result r
AddUtmToAllUrlsReturn(r) ==
    /\ outs' = Append(outs, [raised |-> r.raised, value |-> r.value])
    /\ mapping' = Append(mapping, r.mapping)

\* a call of add_utm_to_all_urls(text, source, medium, campaign); a later call is
\* given the text the previous one returned
AddUtmToAllUrlsCall ==
    /\ Len(outs) < MaxCalls
    /\ outs # <<>> => ~outs[Len(outs)].raised
    /\ AddUtmToAllUrlsReturn(
           add_utm_to_all_urls(IF outs = <<>> THEN text ELSE outs[Len(outs)].value,
                               triple[1], triple[2], triple[3]))
    /\ pc' = "done"
    /\ UNCHANGED <<text, triple, urls, url, annotated, path, img>>

NextDoc == AddUtmToAllUrlsCall

SpecDoc == InitDoc /\ [][NextDoc]_vars

----------------------------------------------------------------------------
(* Claims about add_utm_to_all_urls (C1, C2, C5, C7, C10), under SpecDoc.  *)

\* the first call has returned
Returned == Len(outs) >= 1 /\ ~outs[1].raised

\* a URL whose path ends in an image extension
C1_ImageUrl(u) == \E x \in C9_Extensions : EndsWith(urlparse(u).path, x)

\* the URLs located in the input and in the output of the first call
LocatedIn == find_urls(text)
LocatedOut == find_urls(outs[1].value)

\* C1: every image URL located in the input appears byte-identical at the same
\* occurrence in the output.
C1_ImagesUntouched ==
    Returned =>
        /\ Len(LocatedOut) = Len(LocatedIn)
        /\ \A i \in 1..Len(LocatedIn) :
             C1_ImageUrl(LocatedIn[i]) => LocatedOut[i] = LocatedIn[i]

\* C2: every occurrence of a non-image URL located in the input is replaced in
\* the output by exactly add_utm_to_url of that URL.
C2_EveryOccurrenceAnnotated ==
    Returned =>
        /\ Len(LocatedOut) = Len(LocatedIn)
        /\ \A i \in 1..Len(LocatedIn) :
             ~C1_ImageUrl(LocatedIn[i]) =>
                 LocatedOut[i] =
                     add_utm_to_url(LocatedIn[i], triple[1], triple[2], triple[3]).value

\* C5: a second application with the same triple to the output of the first
\* changes nothing.
C5_Idempotent ==
    (Len(outs) >= 2 /\ ~outs[2].raised) => outs[2].value = outs[1].value

\* C7: add_utm_to_all_urls returns a text and never raises.
C7_NeverRaises ==
    \A i \in 1..Len(outs) : ~outs[i].raised

\* C10: every key of the replacement map is a non-image URL exactly as find_urls
\* located it in the text, and its value is the annotation of that string.
C10_KeysAreLocated ==
    Returned =>
        \A k \in 1..Len(mapping[1]) :
            /\ \E i \in 1..Len(LocatedIn) :
                 mapping[1][k][1] = LocatedIn[i] /\ ~C1_ImageUrl(LocatedIn[i])
            /\ mapping[1][k][2] =
                 add_utm_to_url(mapping[1][k][1], triple[1], triple[2], triple[3]).value

----------------------------------------------------------------------------
(* Inputs of find_urls.                                                    *)

FindPieces ==
    { <<"h", "t", "t", "p", ":", "/", "/">>,
      <<"h", "t", "t", "p", "s", ":", "/", "/">>,
      <<"h", "t", "t", "p", ":", "/">>,
      <<"h", "t", "t", "p", ":", "/", "/", "a">>,
      <<"a">>, <<" ">>, <<"\n">>, <<"(">>, <<")">> }

FindTexts == { Concat(ps) : ps \in SeqsUpTo(FindPieces, MaxFindPieces) }

InitFind ==
    /\ pc = "input"
    /\ text \in FindTexts
    /\ triple = <<EMPTY, EMPTY, EMPTY>>
    /\ urls = <<>>
    /\ url = EMPTY
    /\ annotated = [raised |-> FALSE, value |-> EMPTY]
    /\ mapping = <<>>
    /\ outs = <<>>
    /\ path = EMPTY
    /\ img = FALSE

\* a call of find_urls(text)
FindUrlsCall ==
    /\ pc = "input"
    /\ urls' = find_urls(text)
    /\ pc' = "done"
    /\ UNCHANGED <<text, triple, url, annotated, mapping, outs, path, img>>

NextFind == FindUrlsCall

SpecFind == InitFind /\ [][NextFind]_vars

----------------------------------------------------------------------------
(* Claim C8, stated without the scan: the located substrings as a set of   *)
(* spans of the text.                                                      *)

C8_Stop == {" ", "\n", "(", ")"}

\* the length of the scheme token 'http://' or 'https://' at position s, 0 if none
C8_Token(t, s) ==
    IF StartsWithAt(t, <<"h", "t", "t", "p", ":", "/", "/">>, s) THEN 7
    ELSE IF StartsWithAt(t, <<"h", "t", "t", "p", "s", ":", "/", "/">>, s) THEN 8
    ELSE 0

\* the end of the longest run of characters that are neither whitespace nor a
\* parenthesis and that follows the scheme token at s (s + n - 1: an empty run)
C8_End(t, s) ==
    LET n == C8_Token(t, s)
    IN  CHOOSE e \in (s + n - 1)..Len(t) :
            /\ \A k \in (s + n)..e : t[k] \notin C8_Stop
            /\ (e = Len(t) \/ t[e + 1] \in C8_Stop)

\* <<s, e>>: a scheme token at s, followed by the longest run of characters that
\* are neither whitespace nor a parenthesis, of at least minRun characters
C8_Candidates(t, minRun) ==
    { <<s, C8_End(t, s)>> :
        s \in { s \in 1..Len(t) :
                  /\ C8_Token(t, s) > 0
                  /\ C8_End(t, s) - (s + C8_Token(t, s)) + 1 >= minRun } }

\* the candidates that do not start inside an earlier candidate
C8_Selected(t, minRun) ==
    LET cand == C8_Candidates(t, minRun)
    IN  { c \in cand : ~\E d \in cand : d[1] < c[1] /\ c[1] <= d[2] }

\* the selected substrings in order of start position, duplicates kept
C8_Expected(t, minRun) ==
    LET sel == C8_Selected(t, minRun)
    IN  [ k \in 1..Cardinality(sel) |->
            LET c == CHOOSE c \in sel :
                        Cardinality({d \in sel : d[1] < c[1]}) = k - 1
            IN  SubSeq(t, c[1], c[2]) ]

C8_Shape ==
    /\ \A i \in 1..Len(urls) : \A k \in 1..Len(urls[i]) : urls[i][k] \notin C8_Stop
    /\ (\A s \in 1..Len(text) : C8_Token(text, s) = 0) => urls = <<>>

\* C8 (as amended): find_urls returns, in order of start position and with
\* duplicates kept, exactly the non-overlapping substrings that start with
\* 'http://' or 'https://' and extend through the longest following NON-EMPTY run
\* of characters that are neither whitespace nor '(' nor ')'; no returned
\* substring contains whitespace or a parenthesis, and a text with no scheme
\* token yields the empty sequence.
C8_FindUrlsNonEmptyRun ==
    pc = "done" => urls = C8_Expected(text, 1) /\ C8_Shape

\* C8 (as written): the same with no condition on the length of the run, so that
\* a scheme token followed by whitespace, a parenthesis or the end of the text
\* would be returned on its own.
C8_FindUrlsAnyRun ==
    pc = "done" => urls = C8_Expected(text, 0) /\ C8_Shape

\* C8 witness: two located URLs, the second a duplicate of the first, the first
\* one ended by a closing parenthesis.
C8_Witness ==
    /\ pc = "done"
    /\ Len(urls) = 2
    /\ urls[1] = urls[2]
    /\ Len(text) > Len(urls[1])
    /\ text[Len(urls[1]) + 1] = ")"

====
